---- MODULE Spec2Model ----
(***************************************************************************)
(* One run of one of the nine AgentText wrapper scripts.  The state is the *)
(* process: its command line, its position in main(), the client handle,   *)
(* the pending exception, what it printed and its exit code.  The external *)
(* agenttext package and the file system are the environment: every call   *)
(* into them returns a value of some shape or raises.                      *)
(***************************************************************************)
EXTENDS Integers, Sequences, FiniteSets, TLC

\* ---- bounds of the model ------------------------------------------------
MaxPos == 2        \* positional tokens on the command line
MaxSize == 2       \* entries of a list / dict returned by the client
MaxEvents == 1     \* callback events delivered to the watch loop
MaxTicks == 2      \* observed iterations of the sleep loop

\* ---- scripts ------------------------------------------------------------
Scripts ==
  {"batch_send", "get_messages", "get_unread", "list_chats", "send_file",
   "send_message", "watcher", "watch_messages", "simple_test"}

\* the scripts whose main() builds an argparse parser
ArgparseScripts == Scripts \ {"watch_messages", "simple_test"}

DefaultUrl == "http://localhost:3000"
OtherUrl == "http://10.0.0.5:8080"

\* ---- command lines ------------------------------------------------------
PosTokens == {"start", "stop", "status", "x"}

FlagTokens ==
  { <<"--bogus", "">>, <<"none", "">>, <<"--base-url", OtherUrl>>, <<"--limit", "7">>,
    <<"--limit", "abc">>, <<"--type", "group">>, <<"--type", "bogus">>,
    <<"--sender", "x">>, <<"--unread-only", "">>, <<"--text", "x">>,
    <<"--files", "a,b">>, <<"--webhook-url", "u">> }

SeqsUpTo(S, n) == UNION { [1..k -> S] : k \in 0..n }

Argvs == { [pos |-> p, flag |-> f[1], fval |-> f[2]] :
             p \in SeqsUpTo(PosTokens, MaxPos), f \in FlagTokens }

\* add_argument calls without a leading "--": one choice set per positional
AnyToken == PosTokens
Positionals(s) ==
  CASE s = "batch_send"   -> << AnyToken >>
    [] s = "send_file"    -> << AnyToken, AnyToken >>
    [] s = "send_message" -> << AnyToken, AnyToken >>
    [] s = "watcher"      -> << {"start", "stop", "status"} >>
    [] OTHER              -> << >>

\* add_argument calls with a leading "--"
Options(s) ==
  CASE s = "batch_send"   -> {"--base-url"}
    [] s = "get_messages" -> {"--limit", "--sender", "--unread-only", "--base-url"}
    [] s = "get_unread"   -> {"--base-url"}
    [] s = "list_chats"   -> {"--limit", "--type", "--base-url"}
    [] s = "send_file"    -> {"--text", "--base-url"}
    [] s = "send_message" -> {"--files", "--base-url"}
    [] s = "watcher"      -> {"--webhook-url", "--base-url"}
    [] OTHER              -> {}

\* type=int and choices=[...] of the options
OptionValueOK(flag, fval) ==
  CASE flag = "--limit" -> fval = "7"
    [] flag = "--type"  -> fval \in {"group", "direct"}
    [] OTHER            -> TRUE

\* parser.parse_args() accepts the command line
ParseOK(s, a) ==
  /\ Len(a.pos) = Len(Positionals(s))
  /\ \A i \in 1..Len(a.pos) : a.pos[i] \in Positionals(s)[i]
  /\ a.flag = "none" \/ (a.flag \in Options(s) /\ OptionValueOK(a.flag, a.fval))

\* args.base_url, or the URL the script hard-codes / leaves to the package
BaseUrlOf(s, a) ==
  IF s \in ArgparseScripts /\ a.flag = "--base-url" THEN a.fval ELSE DefaultUrl

\* ---- Python values ------------------------------------------------------
\* t: type, n: size (list, dict) or identity (str, int), ok: json.dumps
\* accepts it, src: for a string made by str(), the type it renders
Val(t, n, ok, src) == [t |-> t, n |-> n, ok |-> ok, src |-> src]
NoVal == Val("absent", 0, TRUE, "absent")
EmptyList == Val("list", 0, TRUE, "list")
\* a return value the script does not bind to a name
Discarded == Val("discarded", 0, TRUE, "discarded")

JsonValues ==
  { Val(t, n, TRUE, t) : t \in {"dict", "list"}, n \in 0..MaxSize }
    \cup { Val("str", 1, TRUE, "str"), Val("int", 1, TRUE, "int"),
           Val("none", 0, TRUE, "none") }

\* what a client method may hand back: JSON-shaped data, containers holding
\* something json.dumps rejects, or an arbitrary object
ClientValues ==
  JsonValues
    \cup { Val(t, n, FALSE, t) : t \in {"dict", "list"}, n \in 1..MaxSize }
    \cup { Val("obj", 1, FALSE, "obj") }

\* str(v)
PyStr(v) == IF v.t = "str" THEN v ELSE Val("str", v.n, TRUE, v.t)

\* a marshalling that passes every value through as it is
MarshalUnchanged(v) == v

\* result if isinstance(result, dict) else str(result)
Marshal(v) == IF v.t = "dict" THEN v ELSE PyStr(v)

\* x if isinstance(x, list) else []
ListOrEmpty(v) == IF v.t = "list" THEN v ELSE EmptyList

\* messages if isinstance(messages, (list, dict)) else []
ListDictOrEmpty(v) == IF v.t \in {"list", "dict"} THEN v ELSE EmptyList

\* len(x) if isinstance(x, list) else 0
CountOf(v) == IF v.t = "list" THEN v.n ELSE 0

\* ---- exceptions ---------------------------------------------------------
Exc(cls, msg, code) == [cls |-> cls, msg |-> msg, code |-> code]
NoExc == Exc("none", << >>, 0)

Ancestors(c) ==
  CASE c = "FileNotFoundError" -> {"OSError", "Exception", "BaseException"}
    [] c = "PermissionError"   -> {"OSError", "Exception", "BaseException"}
    [] c = "JSONDecodeError"   -> {"ValueError", "Exception", "BaseException"}
    [] c = "TypeError"         -> {"Exception", "BaseException"}
    [] c = "RuntimeError"      -> {"Exception", "BaseException"}
    [] c = "AgentTextConnectionException" -> {"Exception", "BaseException"}
    [] c = "AgentTextAPIException"        -> {"Exception", "BaseException"}
    [] c = "SystemExit"        -> {"BaseException"}
    [] c = "KeyboardInterrupt" -> {"BaseException"}
    [] OTHER                   -> {}

\* a clause that catches like a bare "except:" does
IsSubclassBare(c, d) == c = d \/ d \in Ancestors(c) \/ d = "Exception"

\* an "except d" clause catches an exception of class c
IsSubclass(c, d) == c = d \/ d \in Ancestors(c)

\* the except clauses with the interrupt clause of the watch loop left out
HandlersNoInterrupt(s) ==
  CASE s = "batch_send" ->
         << "FileNotFoundError", "JSONDecodeError",
            "AgentTextConnectionException", "AgentTextAPIException", "Exception" >>
    [] s \in {"simple_test", "watch_messages"} -> << "Exception" >>
    [] OTHER ->
         << "AgentTextConnectionException", "AgentTextAPIException", "Exception" >>

\* the except clauses of main(), in source order
Handlers(s) ==
  CASE s = "batch_send" ->
         << "FileNotFoundError", "JSONDecodeError",
            "AgentTextConnectionException", "AgentTextAPIException", "Exception" >>
    [] s = "simple_test" -> << "Exception" >>
    [] s = "watch_messages" -> << "KeyboardInterrupt", "Exception" >>
    [] OTHER ->
         << "AgentTextConnectionException", "AgentTextAPIException", "Exception" >>

\* the clause that runs for an exception of class c, 0 when none does
FirstMatch(s, c) ==
  LET hs == Handlers(s)
      m == { i \in 1..Len(hs) : IsSubclass(c, hs[i]) }
  IN IF m = {} THEN 0 ELSE CHOOSE i \in m : \A j \in m : i <= j

\* what the package may raise, with the texts str(e) may have
ClientExcs(url) ==
  { Exc("AgentTextConnectionException", << "Connection refused" >>, 0),
    Exc("AgentTextConnectionException", << "Cannot reach ", url >>, 0),
    Exc("AgentTextAPIException", << "400 Bad Request" >>, 0),
    Exc("RuntimeError", << "unexpected" >>, 0) }

\* ---- printed lines ------------------------------------------------------
\* one JSON document on standard output.  success is "true", "false", or
\* "absent" for the event lines of the watch callback
Env(kind, success, error, message, payload, count) ==
  [kind |-> kind, success |-> success, error |-> error, message |-> message,
   payload |-> payload, count |-> count]

Failure(kind, error) == Env(kind, "false", error, << >>, NoVal, -1)

\* the import guard at the top of every script
ImportErrorText(s) ==
  IF s = "watch_messages"
  THEN << "AgentText package not installed. Run: pip3 install agenttext" >>
  ELSE << "AgentText package not installed. Run: pip3 install -e /path/to/agenttext_package" >>

\* the message with the path left out of it
FileNotFoundTextNoPath(path) == << "File not found" >>

\* f"File not found: {path}"
FileNotFoundText(path) == << "File not found: ", path >>

\* the error string each except clause builds from str(e), args.base_url
\* and args.json_file
ErrorText(catch, e, url, path) ==
  CASE catch = "FileNotFoundError" -> FileNotFoundText(path)
    [] catch = "AgentTextConnectionException" ->
         << "Connection error: " >> \o e.msg
           \o << ". Make sure the API server is running on ", url >>
    [] catch = "AgentTextAPIException" -> << "API error: " >> \o e.msg
    [] catch = "JSONDecodeError" -> << "Invalid JSON: " >> \o e.msg
    [] OTHER -> e.msg

Contains(text, token) == \E i \in 1..Len(text) : text[i] = token

\* the client method a script delegates to
MethodOf(s, a) ==
  CASE s = "batch_send"   -> "messages.send_batch"
    [] s = "get_messages" -> "messages.list"
    [] s = "get_unread"   -> "messages.get_unread"
    [] s = "list_chats"   -> "chats.list"
    [] s = "send_file"    -> "messages.send_file"
    [] s = "send_message" ->
         IF a.flag = "--files" THEN "messages.send_files" ELSE "messages.send"
    [] s = "watcher"      -> "watcher." \o a.pos[1]
    [] s = "watch_messages" -> "watcher.start"
    [] OTHER              -> "messages.send"

\* the success envelope a script assembles from the client's return value
\* r (msgs: the array read by batch send)
SuccessEnv(s, a, r, msgs) ==
  CASE s = "batch_send" ->
         Env("sent_batch", "true", << >>,
             << "Sent ", ToString(msgs.n), " messages" >>, ListOrEmpty(r), -1)
    [] s = "get_messages" ->
         Env("messages", "true", << >>, << >>, ListDictOrEmpty(r), CountOf(r))
    [] s = "get_unread" ->
         Env("unread", "true", << >>, << >>, r, -1)
    [] s = "list_chats" ->
         Env("chats", "true", << >>, << >>, ListOrEmpty(r), CountOf(r))
    [] s = "send_file" ->
         Env("sent_file", "true", << >>, << "File sent to ", a.pos[1] >>,
             Marshal(r), -1)
    [] s = "send_message" ->
         Env("sent", "true", << >>, << "Message sent to ", a.pos[1] >>,
             Marshal(r), -1)
    [] s = "watcher" ->
         Env(a.pos[1], "true", << >>,
             IF a.pos[1] = "start" THEN << "Watcher started" >>
             ELSE IF a.pos[1] = "stop" THEN << "Watcher stopped" >>
             ELSE << >>,
             Marshal(r), -1)
    [] OTHER ->
         Env("test_sent", "true", << >>, << "Test message sent successfully!" >>,
             Marshal(r), -1)

\* json.dumps(envelope) returns instead of raising TypeError
Serializable(env) == env.payload.ok

\* ---- state --------------------------------------------------------------
VARIABLES
  script,       \* which script this process runs
  argv,         \* its command line
  pc,           \* position in the script
  fileExists,   \* send file: outcome of os.path.exists ("unknown" before)
  messages,     \* batch send: the value json.load returned
  clientBuilt,  \* AgentText(...) has been called
  baseUrl,      \* the base URL the client was asked to use
  calls,        \* client methods invoked, in order
  result,       \* the value the delegated call returned
  exc,          \* the exception in flight
  stdout,       \* the JSON documents printed
  usage,        \* argparse printed its usage error on stderr
  exitCode,     \* -1 while running
  interrupted,  \* SIGINT was delivered
  events,       \* callback invocations so far
  ticks         \* sleep iterations so far

vars == << script, argv, pc, fileExists, messages, clientBuilt, baseUrl, calls,
           result, exc, stdout, usage, exitCode, interrupted, events, ticks >>

Init ==
  /\ script \in Scripts
  /\ argv \in Argvs
  /\ pc = "import"
  /\ fileExists = "unknown"
  /\ messages = NoVal
  /\ clientBuilt = FALSE
  /\ baseUrl = ""
  /\ calls = << >>
  /\ result = NoVal
  /\ exc = NoExc
  /\ stdout = << >>
  /\ usage = FALSE
  /\ exitCode = -1
  /\ interrupted = FALSE
  /\ events = 0
  /\ ticks = 0

\* process exit with code c
ExitWith(c) == pc' = "exited" /\ exitCode' = c

\* raise e inside the try block of main()
Raise(e) == pc' = "raised" /\ exc' = e

\* what the except clause `catch` prints
HandlerEnv(catch, e, url, path) ==
  IF catch = "KeyboardInterrupt"
  THEN Env("stopped", "true", << >>, << "Watcher stopped" >>, NoVal, -1)
  ELSE Failure(catch, ErrorText(catch, e, url, path))

\* an except clause that prints and forgets to exit
HandlerExitFallsThrough(catch) == 0

\* how the process ends after the except clause `catch`: sys.exit(1), or
\* main() returning after the interrupt clause
HandlerExit(catch) == IF catch = "KeyboardInterrupt" THEN 0 ELSE 1

\* sys.exit() called without its status
UncaughtExitNoStatus(e) ==
  CASE e.cls = "SystemExit" -> 0
    [] e.cls = "KeyboardInterrupt" -> 130
    [] OTHER -> 1

\* exit status of a process ended by an exception no clause caught
UncaughtExit(e) ==
  CASE e.cls = "SystemExit" -> e.code
    [] e.cls = "KeyboardInterrupt" -> 130
    [] OTHER -> 1

\* a main() that builds the client before it looks at the command line
AfterImportNoParse(s) == "construct"

\* where main() starts once the package is imported
AfterImport(s) == IF s \in ArgparseScripts THEN "parse" ELSE "construct"

\* where main() continues once the arguments are parsed
AfterParse(s) ==
  CASE s = "send_file" -> "check_file"
    [] s = "batch_send" -> "read_json"
    [] OTHER -> "construct"

\* where main() continues once the client is built
AfterConstruct(s) == IF s = "watch_messages" THEN "status_line" ELSE "call"

\* a watch script that returns after starting the subscription
AfterCallNoLoop(s) == "print"

\* what main() keeps of the value v the delegated call returned: watch
\* messages calls client.watcher.start(...) as a statement
Kept(s, v) == IF s = "watch_messages" THEN Discarded ELSE v

\* where main() continues once the delegated call has returned
AfterCall(s) == IF s = "watch_messages" THEN "loop" ELSE "print"

\* ---- steps --------------------------------------------------------------
\* try: from agenttext import ... / except ImportError: print, sys.exit(1)
Import ==
  /\ pc = "import"
  /\ \E installed \in BOOLEAN :
       IF installed
       THEN /\ pc' = AfterImport(script)
            /\ UNCHANGED << stdout, exitCode >>
       ELSE /\ stdout' = Append(stdout, Failure("ImportError", ImportErrorText(script)))
            /\ ExitWith(1)
  /\ UNCHANGED << script, argv, fileExists, messages, clientBuilt, baseUrl, calls,
                  result, exc, usage, interrupted, events, ticks >>

\* args = parser.parse_args(): a usage error ends the process with status 2
ParseArgs ==
  /\ pc = "parse"
  /\ IF ParseOK(script, argv)
     THEN /\ pc' = AfterParse(script)
          /\ UNCHANGED << usage, exitCode >>
     ELSE /\ usage' = TRUE
          /\ ExitWith(2)
  /\ UNCHANGED << script, argv, fileExists, messages, clientBuilt, baseUrl, calls,
                  result, exc, stdout, interrupted, events, ticks >>

\* send file: if not os.path.exists(args.file_path): print, sys.exit(1)
CheckFile ==
  /\ pc = "check_file"
  /\ \E exists \in BOOLEAN :
       /\ fileExists' = IF exists THEN "yes" ELSE "no"
       /\ IF exists
          THEN /\ pc' = "construct"
               /\ UNCHANGED << stdout, exitCode >>
          ELSE /\ stdout' = Append(stdout,
                               Failure("file_missing", FileNotFoundText(argv.pos[2])))
               /\ ExitWith(1)
  /\ UNCHANGED << script, argv, messages, clientBuilt, baseUrl, calls, result, exc,
                  usage, interrupted, events, ticks >>

\* what open() and json.load() may raise
ReadExcs ==
  { Exc("FileNotFoundError", << "No such file or directory" >>, 0),
    Exc("PermissionError", << "Permission denied" >>, 0),
    Exc("JSONDecodeError", << "Expecting value" >>, 0) }

\* batch send: with open(args.json_file) as f: messages = json.load(f)
ReadJson ==
  /\ pc = "read_json"
  /\ \/ \E v \in JsonValues :
          /\ messages' = v
          /\ pc' = "check_array"
          /\ exc' = exc
     \/ \E e \in ReadExcs :
          /\ Raise(e)
          /\ messages' = messages
  /\ UNCHANGED << script, argv, fileExists, clientBuilt, baseUrl, calls, result,
                  stdout, usage, exitCode, interrupted, events, ticks >>

\* batch send: if not isinstance(messages, list): print, sys.exit(1)
CheckArray ==
  /\ pc = "check_array"
  /\ IF messages.t = "list"
     THEN /\ pc' = "construct"
          /\ UNCHANGED << stdout, exc >>
     ELSE /\ stdout' = Append(stdout,
                          Failure("not_array",
                                  << "JSON file must contain an array of messages" >>))
          /\ Raise(Exc("SystemExit", << >>, 1))
  /\ UNCHANGED << script, argv, fileExists, messages, clientBuilt, baseUrl, calls,
                  result, usage, exitCode, interrupted, events, ticks >>

\* client = AgentText(base_url=..., timeout=30)
Construct ==
  /\ pc = "construct"
  /\ baseUrl' = BaseUrlOf(script, argv)
  /\ clientBuilt' = TRUE
  /\ \/ /\ pc' = AfterConstruct(script)
        /\ exc' = exc
     \/ \E e \in ClientExcs(BaseUrlOf(script, argv)) : Raise(e)
  /\ UNCHANGED << script, argv, fileExists, messages, calls, result, stdout, usage,
                  exitCode, interrupted, events, ticks >>

\* watch messages: print the "Starting message watcher..." line
PrintStatus ==
  /\ pc = "status_line"
  /\ stdout' = Append(stdout,
                      Env("starting", "true", << >>,
                          << "Starting message watcher..." >>, NoVal, -1))
  /\ pc' = "call"
  /\ UNCHANGED << script, argv, fileExists, messages, clientBuilt, baseUrl, calls,
                  result, exc, usage, exitCode, interrupted, events, ticks >>

\* the one delegated client call
Call ==
  /\ pc = "call"
  /\ calls' = Append(calls, MethodOf(script, argv))
  /\ \/ \E v \in ClientValues :
          /\ result' = Kept(script, v)
          /\ pc' = AfterCall(script)
          /\ exc' = exc
     \/ \E e \in ClientExcs(baseUrl) :
          /\ Raise(e)
          /\ result' = result
  /\ UNCHANGED << script, argv, fileExists, messages, clientBuilt, baseUrl, stdout,
                  usage, exitCode, interrupted, events, ticks >>

\* print(json.dumps({...})) of the success envelope, then main() returns
PrintResult ==
  /\ pc = "print"
  /\ LET env == SuccessEnv(script, argv, result, messages)
     IN IF Serializable(env)
        THEN /\ stdout' = Append(stdout, env)
             /\ ExitWith(0)
             /\ exc' = exc
        ELSE /\ Raise(Exc("TypeError", << "Object is not JSON serializable" >>, 0))
             /\ UNCHANGED << stdout, exitCode >>
  /\ UNCHANGED << script, argv, fileExists, messages, clientBuilt, baseUrl, calls,
                  result, usage, interrupted, events, ticks >>

\* watch messages: the package invokes on_message(message)
OnMessage ==
  /\ pc = "loop"
  /\ events < MaxEvents
  /\ events' = events + 1
  /\ \E m \in {Val("dict", 1, TRUE, "dict"), Val("obj", 1, FALSE, "obj")} :
       stdout' = Append(stdout, Env("event", "absent", << >>, << >>, Marshal(m), -1))
  /\ UNCHANGED << script, argv, pc, fileExists, messages, clientBuilt, baseUrl,
                  calls, result, exc, usage, exitCode, interrupted, ticks >>

\* watch messages: while True: time.sleep(1)
Sleep ==
  /\ pc = "loop"
  /\ ticks < MaxTicks
  /\ ticks' = ticks + 1
  /\ UNCHANGED << script, argv, pc, fileExists, messages, clientBuilt, baseUrl,
                  calls, result, exc, stdout, usage, exitCode, interrupted, events >>

\* the points of the try block of watch messages
WatchTryPoints == {"construct", "status_line", "call", "loop"}

\* watch messages: SIGINT raises KeyboardInterrupt in the main thread
Interrupt ==
  /\ script = "watch_messages"
  /\ pc \in WatchTryPoints
  /\ interrupted' = TRUE
  /\ Raise(Exc("KeyboardInterrupt", << >>, 0))
  /\ UNCHANGED << script, argv, fileExists, messages, clientBuilt, baseUrl, calls,
                  result, stdout, usage, exitCode, events, ticks >>

\* the exception reaches the except clauses of main()
Dispatch ==
  /\ pc = "raised"
  /\ LET i == FirstMatch(script, exc.cls)
     IN IF i = 0
        THEN /\ ExitWith(UncaughtExit(exc))
             /\ stdout' = stdout
        ELSE /\ stdout' = Append(stdout,
                                 HandlerEnv(Handlers(script)[i], exc,
                                            BaseUrlOf(script, argv),
                                            IF Len(argv.pos) >= 1 THEN argv.pos[1] ELSE ""))
             /\ ExitWith(HandlerExit(Handlers(script)[i]))
  /\ UNCHANGED << script, argv, fileExists, messages, clientBuilt, baseUrl, calls,
                  result, exc, usage, interrupted, events, ticks >>

Next ==
  \/ Import
  \/ ParseArgs
  \/ CheckFile
  \/ ReadJson
  \/ CheckArray
  \/ Construct
  \/ PrintStatus
  \/ Call
  \/ PrintResult
  \/ OnMessage
  \/ Sleep
  \/ Interrupt
  \/ Dispatch

Spec == Init /\ [][Next]_vars

\* the steps the process takes by itself: every step but the two the
\* environment decides on (a signal, an incoming message)
Step ==
  \/ Import
  \/ ParseArgs
  \/ CheckFile
  \/ ReadJson
  \/ CheckArray
  \/ Construct
  \/ PrintStatus
  \/ Call
  \/ PrintResult
  \/ Sleep
  \/ Dispatch

\* a running process keeps executing; every blocking call returns or raises
FairSpec == Spec /\ WF_vars(Step)

\* ---- properties ---------------------------------------------------------
Exited == pc = "exited"
Last == stdout[Len(stdout)]
WatcherAction(a) == script = "watcher" /\ ParseOK(script, argv) /\ argv.pos[1] = a

C2_ExactlyOneObject ==
  Exited /\ exitCode \in {0, 1} =>
    /\ Len(stdout) = 1
    /\ exitCode = 0 <=> stdout[1].success = "true"

\* C2 (amended): every run ending with status 0 or 1 has printed exactly one
\* result envelope, as its last line, and the status is 0 exactly when that
\* envelope has success=true; it is the only line printed except in watch
\* messages, where the status line and the event lines come before it.
C2_OneResultEnvelope ==
  Exited /\ exitCode \in {0, 1} =>
    /\ Len(stdout) >= 1
    /\ Last.kind \notin {"starting", "event"}
    /\ \A i \in 1..(Len(stdout) - 1) : stdout[i].kind \in {"starting", "event"}
    /\ script # "watch_messages" => Len(stdout) = 1
    /\ exitCode = 0 <=> Last.success = "true"

C2_Witness ==
  /\ Exited /\ exitCode = 1
  /\ script = "get_unread" /\ exc.cls = "TypeError" /\ result # NoVal
  /\ Len(stdout) = 1 /\ stdout[1].success = "false"

\* C3: when the client raised a connection failure, the error string of the
\* printed envelope contains the configured base URL.
C3_ConnectionErrorNamesUrl ==
  Exited /\ exc.cls = "AgentTextConnectionException" =>
    /\ Len(stdout) >= 1
    /\ Contains(Last.error, BaseUrlOf(script, argv))

\* C4 (as stated): when watcher status returns, the envelope has success=true
\* and its status field is the returned value, whatever its shape.
C4_StatusUnmodified ==
  Exited /\ result # NoVal /\ WatcherAction("status") =>
    Last.success = "true" /\ Last.payload = result

\* C4 (amended): when watcher status returns a dict json.dumps accepts, the
\* status field is that dict; when it returns anything but a dict, the status
\* field is the string str() makes of it (the value itself only when it is a
\* string); when it returns a dict json.dumps rejects, the only envelope is a
\* failure and the exit status is 1.
C4_StatusDictOrStr ==
  Exited /\ result # NoVal /\ WatcherAction("status") =>
    /\ Len(stdout) = 1
    /\ result.t = "dict" /\ result.ok =>
         Last.success = "true" /\ Last.payload = result /\ exitCode = 0
    /\ result.t # "dict" =>
         /\ Last.success = "true" /\ exitCode = 0
         /\ Last.payload.t = "str" /\ Last.payload.src = result.t
         /\ Last.payload = result <=> result.t = "str"
    /\ result.t = "dict" /\ ~result.ok =>
         Last.success = "false" /\ exitCode = 1

C4_Witness ==
  /\ Exited /\ WatcherAction("status")
  /\ result.t = "list" /\ result.n = 1
  /\ Last.success = "true" /\ Last.payload # result

C6_MissingFile ==
  fileExists = "no" =>
    /\ script = "send_file"
    /\ Exited /\ exitCode = 1
    /\ Len(stdout) = 1 /\ stdout[1].success = "false"
    /\ Contains(stdout[1].error, argv.pos[2])
    /\ ~clientBuilt /\ calls = << >>

C6_Witness ==
  /\ fileExists = "no" /\ Exited
  /\ argv.flag = "--text" /\ argv.pos[2] = "x"

\* C7: batch send on a JSON value that is not an array prints exactly one
\* envelope, the array-required failure, exits 1 through the exit raised in
\* the try block, and never builds the client or calls send_batch.
C7_NotArray ==
  script = "batch_send" /\ messages # NoVal /\ messages.t # "list"
    /\ pc # "check_array" =>
      /\ pc \in {"raised", "exited"}
      /\ exc.cls = "SystemExit"
      /\ Len(stdout) = 1
      /\ stdout[1].success = "false" /\ stdout[1].kind = "not_array"
      /\ ~clientBuilt /\ calls = << >>
      /\ Exited => exitCode = 1

C7_Witness ==
  /\ script = "batch_send" /\ messages.t = "dict" /\ messages.n = 1
  /\ Exited /\ exitCode = 1

\* C8: an interrupt delivered while watch messages builds its client, starts
\* the watcher or sleeps is a successful stop: no success=false envelope is
\* printed, the last envelope has success=true and the exit status is 0.
C8_InterruptIsSuccess ==
  interrupted =>
    /\ script = "watch_messages"
    /\ \A i \in 1..Len(stdout) : stdout[i].success # "false"
    /\ pc \in {"raised", "exited"}
    /\ Exited =>
         /\ exitCode = 0
         /\ Last.kind = "stopped" /\ Last.success = "true"

C8_Witness ==
  /\ interrupted /\ Exited
  /\ ~clientBuilt /\ Len(stdout) = 1

Entries(v) == IF v.t \in {"list", "dict"} THEN v.n ELSE 0

C10_CountMatchesMessages ==
  script = "get_messages" /\ Exited /\ exitCode = 0 =>
    Last.count = Entries(Last.payload)

====
